---- MODULE Spec2Model ----
(***************************************************************************)
(* A model of the Lunotech lead-qualification relay (src/main.py): the     *)
(* in-memory session store, the /chat and /report handlers, the stage      *)
(* classifier's contact confirmation, the alert latch and the history      *)
(* window.                                                                 *)
(*                                                                         *)
(* Text is a sequence of one-character strings.  A Python value that the   *)
(* handlers receive (a JSON value) is a record [t, s]: t is its type       *)
(* ("none", "str", "int", "list") and s its text: the string itself, the   *)
(* decimal digits of an integer, or the single string element of a         *)
(* one-element list.                                                       *)
(***************************************************************************)
EXTENDS Integers, Sequences, FiniteSets, TLC

VARIABLES
    SESSIONS,   \* session key -> id of its session record (0: key absent)
    heap,       \* the session records ever created; a record's id is its index
    env,        \* process configuration fixed at start-up
    last,       \* what the last handled request did and returned
    full,       \* per record: every history entry ever appended, in order
    alerts,     \* per record: the operator alerts its turns raised, in order
    turns,      \* number of requests handled so far
    thr,        \* the request-handling threads of the concurrent server
    an,         \* the classifier (analyze_situation) applied to one input
    ad,         \* the alert decision (lines 253-268) applied to one input
    rc,         \* is_real_contact applied to one input
    gs          \* the reply strategy of generate_smart_response on one input

vars == <<SESSIONS, heap, env, last, full, alerts, turns, thr, an, ad, rc, gs>>

----------------------------------------------------------------------------
(* Bounds of the model *)

MaxTurns == 3
MaxHistTurns == 16
MaxThreadTurns == 1

----------------------------------------------------------------------------
(* Text *)

DigitChars == {"0", "1", "2", "3", "4", "5", "6", "7", "8", "9"}

UpperCase == <<"A","B","C","D","E","F","G","H","I","J","K","L","M",
               "N","O","P","Q","R","S","T","U","V","W","X","Y","Z">>

LowerCase == <<"a","b","c","d","e","f","g","h","i","j","k","l","m",
               "n","o","p","q","r","s","t","u","v","w","x","y","z">>

IsDigit(c) == c \in DigitChars

\* re.sub(r"\D", "", s)
StripNonDigits(s) == SelectSeq(s, IsDigit)

\* Python's `needle in hay` for two strings
Contains(hay, needle) ==
    \E i \in 0..(Len(hay) - Len(needle)) :
        SubSeq(hay, i + 1, i + Len(needle)) = needle

HasChar(s, c) == \E i \in 1..Len(s) : s[i] = c

LowerChar(c) ==
    IF \E i \in 1..26 : UpperCase[i] = c
    THEN LowerCase[CHOOSE i \in 1..26 : UpperCase[i] = c]
    ELSE c

\* str.lower()
Lower(s) == [i \in 1..Len(s) |-> LowerChar(s[i])]

----------------------------------------------------------------------------
(* Python values *)

None == [t |-> "none", s |-> <<>>]
StrV(x) == [t |-> "str", s |-> x]
IntV(x) == [t |-> "int", s |-> x]
ListV(x) == [t |-> "list", s |-> x]

\* bool(v)
Truthy(v) ==
    CASE v.t = "none" -> FALSE
      [] v.t = "str"  -> v.s # <<>>
      [] v.t = "int"  -> v.s # <<"0">>
      [] v.t = "list" -> TRUE

\* str(v)
PyStr(v) ==
    CASE v.t = "none" -> <<"N","o","n","e">>
      [] v.t = "str"  -> v.s
      [] v.t = "int"  -> v.s
      [] v.t = "list" -> <<"[","'">> \o v.s \o <<"'","]">>

\* `x in v` for a string x: raises TypeError ("raise") when v is not iterable
PyIn(x, v) ==
    CASE v.t = "str"  -> IF Contains(v.s, x) THEN "true" ELSE "false"
      [] v.t = "list" -> IF v.s = x THEN "true" ELSE "false"
      [] OTHER        -> "raise"

----------------------------------------------------------------------------
(* Texts *)

T_empty == <<>>
T_hi == <<"h","i">>
T_Yes == <<"Y","e","s">>
T_phone == <<"5","5","5","-","1","2","3","4">>
T_Callphone == <<"C","a","l","l"," ">> \o T_phone
T_email == <<"a","@","b",".","c">>
T_okemail == <<"o","k"," ">> \o T_email
T_cookie == <<"9","9","9","0","0","0","0">>
T_short == <<"1","2","3","4","5">>
T_scatter == <<"5","5","5"," ","&"," ","1","2","3","4">>
T_ext == T_phone \o <<" ","x","9">>
T_email6 == <<"u","1","2","3","4","5","6","@","b",".","c">>
T_digits6 == <<"1","2","-","3","4","-","5","6">>
T_Bob == <<"B","o","b">>
T_web == <<"w","e","b">>

\* every message and every contact value of the input sets of this module
AllMessages ==
    { StrV(T_empty), StrV(T_hi), StrV(T_Yes), StrV(T_phone), StrV(T_Callphone),
      StrV(T_cookie), StrV(T_email), StrV(T_okemail), StrV(T_scatter), StrV(T_ext),
      StrV(T_digits6), ListV(T_email), ListV(T_phone), IntV(<<"5">>),
      IntV(T_cookie), None }

AllContacts ==
    { None, StrV(T_empty), StrV(T_phone), StrV(T_email), StrV(T_cookie),
      StrV(T_short), StrV(T_email6) }


----------------------------------------------------------------------------
(* is_real_contact *)

MinPhoneDigits == 7

\* is_real_contact without the test for an address at line 78
is_real_contact_digits_only(contact_str) ==
    IF ~Truthy(contact_str) THEN FALSE
    ELSE Len(StripNonDigits(PyStr(contact_str))) >= MinPhoneDigits

is_real_contact(contact_str) ==
    IF ~Truthy(contact_str) THEN FALSE
    ELSE LET s == PyStr(contact_str) IN
         \/ (HasChar(s, "@") /\ HasChar(s, "."))
         \/ Len(StripNonDigits(s)) >= MinPhoneDigits

\* is_real_contact on the contact values of this module, evaluated once
RealContactMemo == [c \in AllContacts |-> is_real_contact(c)]

----------------------------------------------------------------------------
(* call_ai *)

\* What the text-generation collaborator does with one structured-output
\* request: it raises, or it returns content that is empty, is not JSON, is
\* JSON but not an object, or is an object with the four keys (a key that is
\* missing or null is None; a missing stage is "ABSENT").
AiOut(kind, stage, name, contact, project_type) ==
    [kind |-> kind, stage |-> stage, name |-> name, contact |-> contact,
     project_type |-> project_type]

AiFail(kind) == AiOut(kind, "ABSENT", None, None, None)

\* call_ai(..., json_mode=True): None without a client, "{}" when the call
\* raises, the content otherwise
call_ai_json(ready, ai) ==
    IF ~ready THEN AiFail("none")
    ELSE IF ai.kind = "raise" THEN AiFail("object")
    ELSE ai

\* What the collaborator does with one generation request, and what
\* call_ai(messages) returns for it
ReplyText == <<"O","K">>
SystemError == <<"S","y","s","t","e","m"," ","E","r","r","o","r",".">>

call_ai_text(ready, gen) ==
    IF ~ready THEN None
    ELSE IF gen = "raise" THEN StrV(SystemError)
    ELSE StrV(ReplyText)

----------------------------------------------------------------------------
(* analyze_situation *)

LongDigits == 5

\* is_in_text comparing the stripped digits for equality
is_in_text_equal(extracted_contact, user_message) ==
    LET clean_extracted == StripNonDigits(PyStr(extracted_contact))
        clean_msg == StripNonDigits(PyStr(user_message))
    IN  IF Len(clean_extracted) > LongDigits
        THEN (IF clean_msg = clean_extracted THEN "true" ELSE "false")
        ELSE PyIn(PyStr(extracted_contact), user_message)

\* line 156: "true", "false", or "raise" when `in` raises TypeError
is_in_text(extracted_contact, user_message) ==
    LET clean_extracted == StripNonDigits(PyStr(extracted_contact))
        clean_msg == StripNonDigits(PyStr(user_message))
    IN  IF Len(clean_extracted) > LongDigits
        THEN (IF Contains(clean_msg, clean_extracted) THEN "true" ELSE "false")
        ELSE PyIn(PyStr(extracted_contact), user_message)

\* is_in_text on the values of this module, evaluated once
InTextMemo ==
    [c \in AllContacts, m \in AllMessages |-> is_in_text(c, m)]

\* data.get('stage', 'GREETING')
StageOf(data) == IF data.stage = "ABSENT" THEN "GREETING" ELSE data.stage

AnResult(session, stage, found, raised) ==
    [session |-> session, stage |-> stage, contact_found_now |-> found,
     raised |-> raised]

\* lines 147-148: the profile is the session's own dict, updated in place
ProfileAfterNames(profile, data) ==
    LET p1 == IF Truthy(data.name)
              THEN [profile EXCEPT !.name = data.name] ELSE profile
    IN  IF Truthy(data.project_type)
        THEN [p1 EXCEPT !.project_type = data.project_type] ELSE p1

analyze_situation(session, user_message, response) ==
    IF response.kind \in {"none", "empty"}
    THEN AnResult(session, "GREETING", FALSE, FALSE)
    ELSE IF response.kind \in {"unparseable", "nonobject"}
    THEN AnResult(session, "GREETING", FALSE, TRUE)
    ELSE
    LET data == response
        p2 == ProfileAfterNames(session.profile, data)
        extracted_contact == data.contact
        \* lines 153-156
        in_text == IF RealContactMemo[extracted_contact]
                   THEN InTextMemo[extracted_contact, user_message]
                   ELSE "false"
    IN  CASE in_text = "raise" ->
               AnResult([session EXCEPT !.profile = p2], "GREETING", FALSE, TRUE)
          [] in_text = "true" ->
               AnResult([session EXCEPT !.profile =
                             [p2 EXCEPT !.contact = extracted_contact]],
                        StageOf(data), TRUE, FALSE)
          [] OTHER ->
               AnResult([session EXCEPT !.profile = p2],
                        StageOf(data), FALSE, FALSE)

----------------------------------------------------------------------------
(* chat_endpoint: the parts of one turn *)

HISTORY_LIMIT == 30

\* lines 237-242
NewSession ==
    [history |-> <<>>,
     profile |-> [name |-> None, contact |-> None, project_type |-> None],
     alert_sent |-> FALSE,
     high_priority_alert_sent |-> FALSE]

\* SeedContact without the test that the profile has no contact yet
SeedContact_Overwrite(session, stored_contact) ==
    IF Truthy(stored_contact) /\ RealContactMemo[stored_contact]
    THEN [session EXCEPT !.profile.contact = stored_contact]
    ELSE session

\* SeedContact without the validator's test at line 246
SeedContact_Unvalidated(session, stored_contact) ==
    IF Truthy(stored_contact) /\ ~Truthy(session.profile.contact)
    THEN [session EXCEPT !.profile.contact = stored_contact]
    ELSE session

\* lines 245-247
SeedContact(session, stored_contact) ==
    IF /\ Truthy(stored_contact)
       /\ ~Truthy(session.profile.contact)
       /\ RealContactMemo[stored_contact]
    THEN [session EXCEPT !.profile.contact = stored_contact]
    ELSE session

\* line 257; the Persian words are spelt with the names of their letters
agreement_words ==
    { <<"b","a","l","e">>, <<"y","e","s">>, <<"o","k">>,
      <<"p","l","e","a","s","e">>,
      <<"BEH","LAM","HEH">>, <<"BEH","ALEF","SHEEN","HEH">>,
      <<"HAH","TEH","MEEM","ALEF">>, <<"TEH","MEEM","ALEF","SEEN">>,
      <<"c","a","l","l">> }

\* line 258: "true", "false", or "raise" when user_msg has no lower()
is_agreement(user_msg) ==
    IF user_msg.t # "str" THEN "raise"
    ELSE IF \E w \in agreement_words : Contains(Lower(user_msg.s), w)
         THEN "true" ELSE "false"

\* is_agreement on the messages of this module, evaluated once
AgreementMemo == [m \in AllMessages |-> is_agreement(m)]

ALLOWED_ALERT_STAGES == {"SALES_READY", "URGENT"}
SUPPRESSED_STAGES == {"GREETING", "DISCOVERY", "CONSULTING"}

\* AlertDecision without the test of the latch at line 263
AlertDecision_NoLatch(stage, agree, contact_found_now, has_contact, latch) ==
    LET eligible == (stage \in ALLOWED_ALERT_STAGES \/ agree) /\ has_contact
        alert1 == contact_found_now \/ eligible
        alert2 == IF /\ stage \in SUPPRESSED_STAGES
                     /\ ~contact_found_now
                     /\ ~agree
                  THEN FALSE ELSE alert1
    IN  [should_alert |-> alert2,
         latch |-> latch \/ (~contact_found_now /\ eligible)]

\* AlertDecision whose suppression at line 267 forgets the agreement phrase
AlertDecision_NoAgree(stage, agree, contact_found_now, has_contact, latch) ==
    LET eligible == (stage \in ALLOWED_ALERT_STAGES \/ agree) /\ has_contact
        alert1 == IF contact_found_now THEN TRUE
                  ELSE IF eligible THEN ~latch
                  ELSE FALSE
        latch1 == IF ~contact_found_now /\ eligible /\ ~latch THEN TRUE
                  ELSE latch
        alert2 == IF stage \in SUPPRESSED_STAGES /\ ~contact_found_now
                  THEN FALSE ELSE alert1
    IN  [should_alert |-> alert2, latch |-> latch1]

\* lines 253-268: should_alert and the high-priority latch after the decision
AlertDecision(stage, agree, contact_found_now, has_contact, latch) ==
    LET eligible == (stage \in ALLOWED_ALERT_STAGES \/ agree) /\ has_contact
        \* lines 260-265
        alert1 == IF contact_found_now THEN TRUE
                  ELSE IF eligible THEN ~latch
                  ELSE FALSE
        latch1 == IF ~contact_found_now /\ eligible /\ ~latch THEN TRUE
                  ELSE latch
        \* lines 267-268
        alert2 == IF /\ stage \in SUPPRESSED_STAGES
                     /\ ~contact_found_now
                     /\ ~agree
                  THEN FALSE ELSE alert1
    IN  [should_alert |-> alert2, latch |-> latch1]

\* lines 272-273
AlertTitle(stage, agree, contact_found_now) ==
    IF contact_found_now THEN [label |-> "HOT LEAD - NEW CONTACT", stage |-> ""]
    ELSE IF agree THEN [label |-> "HOT LEAD - SALES READY", stage |-> ""]
    ELSE [label |-> "HOT LEAD - ", stage |-> stage]

NoTitle == [label |-> "", stage |-> ""]

\* send_telegram: whether the report reached the operator. Without the
\* credentials nothing is sent; a failing post is logged and swallowed.
send_telegram(creds, tg) == creds /\ tg = "ok"

Entry(role, content) == [role |-> role, content |-> content]

\* s[-n:]
LastN(s, n) == IF Len(s) <= n THEN s ELSE SubSeq(s, Len(s) - n + 1, Len(s))

\* AppendTurn keeping the first HISTORY_LIMIT entries instead of the last
AppendTurn_KeepFirst(history, user_msg, bot_reply) ==
    LET h == history \o <<Entry("user", user_msg),
                           Entry("assistant", bot_reply)>>
    IN  IF Len(h) <= HISTORY_LIMIT THEN h ELSE SubSeq(h, 1, HISTORY_LIMIT)

\* AppendTurn keeping one entry less than HISTORY_LIMIT
AppendTurn_OddWindow(history, user_msg, bot_reply) ==
    LastN(history \o <<Entry("user", user_msg), Entry("assistant", bot_reply)>>,
          HISTORY_LIMIT - 1)

\* lines 281-283
AppendTurn(history, user_msg, bot_reply) ==
    LastN(history \o <<Entry("user", user_msg), Entry("assistant", bot_reply)>>,
          HISTORY_LIMIT)

----------------------------------------------------------------------------
(* Inputs of the sequential server *)

SessionIds == {"s1"}

Stages == {"GREETING", "DISCOVERY", "CONSULTING", "SALES_READY", "URGENT"}

\* an inbound /chat body: ok is FALSE when it is not a JSON object
Request(ok, sid, message, stored_contact) ==
    [ok |-> ok, session_id |-> sid, message |-> message,
     stored_contact |-> stored_contact]

BadRequest == Request(FALSE, "", None, None)

Messages == { StrV(T_cookie), StrV(T_Callphone), ListV(T_phone) }

StoredContacts == { None, StrV(T_cookie), StrV(T_short) }

Requests ==
    {BadRequest} \cup
    { Request(TRUE, sid, m, c) : sid \in SessionIds, m \in Messages,
                                 c \in StoredContacts }

AiOutputs ==
    { AiFail("raise") } \cup
    { AiOut("object", st, None, c, None) :
        st \in {"DISCOVERY", "SALES_READY", "OTHER"},
        c \in {None, StrV(T_phone), StrV(T_cookie)} }

GenOutcomes == {"ok", "raise"}
TgOutcomes == {"ok", "raise"}

----------------------------------------------------------------------------
(* State *)

NoNotification ==
    [called |-> FALSE, delivered |-> FALSE, title |-> NoTitle,
     profile |-> NewSession.profile, history |-> <<>>]

\* Notification that leaves the transcript out
Notification_NoHistory(delivered, title, profile, history) ==
    [called |-> TRUE, delivered |-> delivered, title |-> title,
     profile |-> profile, history |-> <<>>]

Notification(delivered, title, profile, history) ==
    [called |-> TRUE, delivered |-> delivered, title |-> title,
     profile |-> profile, history |-> history]

NoResponse == [status |-> "", text |-> None, save_contact |-> None]

\* the JSON body returned with HTTP 200
ChatResponse(text, save_contact) ==
    [status |-> "reply", text |-> text, save_contact |-> save_contact]

ErrorResponse == [status |-> "reply", text |-> StrV(SystemError),
                  save_contact |-> None]

NoLast ==
    [op |-> "none", sid |-> "", rid |-> 0, phase |-> "",
     created |-> FALSE,
     contact_before |-> None, contact_seeded |-> None,
     stage |-> "", found |-> FALSE, confirmed |-> None,
     agree |-> FALSE, has_contact |-> FALSE, latch_before |-> FALSE,
     should_alert |-> FALSE,
     notification |-> NoNotification,
     response |-> NoResponse]

AnIdle == [phase |-> "idle"]
AdIdle == [phase |-> "idle"]
NoThreads == <<>>

TypeOK ==
    /\ \A sid \in SessionIds : SESSIONS[sid] \in 0..Len(heap)
    /\ Len(full) = Len(heap) /\ Len(alerts) = Len(heap)
    /\ turns \in Nat

RcIdle == [phase |-> "idle"]
GsIdle == [phase |-> "idle"]

InitStore ==
    /\ SESSIONS = [sid \in SessionIds |-> 0]
    /\ heap = <<>>
    /\ full = <<>>
    /\ alerts = <<>>
    /\ last = NoLast
    /\ turns = 0

\* initialize_system: the client exists iff GROQ_API_KEY is set; the
\* notification credentials are read from the environment
Init ==
    /\ InitStore
    /\ rc = RcIdle
    /\ gs = GsIdle
    /\ env \in [ready : BOOLEAN, creds : BOOLEAN]
    /\ thr = NoThreads
    /\ an = AnIdle
    /\ ad = AdIdle

----------------------------------------------------------------------------
(* chat_endpoint, handled from start to end without interruption *)

\* lines 253-289, once the classifier has answered: a is its result,
\* confirmed the contact it confirmed, agr the agreement test of line 258.
\* The result is the record afterwards, the observations of the turn and the
\* response.
ChatOutcome(s0, s1, a, confirmed, req, agr, has_contact, gen, tg) ==
    LET user_msg == req.message
        s2 == a.session
        agree == (agr = "true")
        d == AlertDecision(a.stage, agree, a.contact_found_now, has_contact,
                           s2.high_priority_alert_sent)
        s3 == [s2 EXCEPT !.high_priority_alert_sent = d.latch]
        temp_history == s3.history \o <<Entry("user", user_msg)>>
        title == AlertTitle(a.stage, agree, a.contact_found_now)
        note == IF d.should_alert
                THEN Notification(send_telegram(env.creds, tg), title,
                                  s3.profile, temp_history)
                ELSE NoNotification
        s4 == [s3 EXCEPT !.alert_sent = @ \/ d.should_alert]
        bot_reply == call_ai_text(env.ready, gen)
        s5 == [s4 EXCEPT !.history = AppendTurn(@, user_msg, bot_reply)]
        seen == [NoLast EXCEPT
                    !.op = "chat", !.sid = req.session_id,
                    !.contact_before = s0.profile.contact,
                    !.contact_seeded = s1.profile.contact,
                    !.stage = a.stage, !.found = a.contact_found_now,
                    !.confirmed = confirmed]
    IN  IF agr = "raise"
        THEN \* line 258 raises: the handler's except returns the generic error
             [session |-> s2, completed |-> FALSE,
              seen |-> [seen EXCEPT !.phase = "aborted",
                                    !.response = ErrorResponse]]
        ELSE [session |-> s5, completed |-> TRUE,
              seen |-> [seen EXCEPT
                          !.phase = "completed",
                          !.agree = agree, !.has_contact = has_contact,
                          !.latch_before = s2.high_priority_alert_sent,
                          !.should_alert = d.should_alert,
                          !.notification = note,
                          !.response = ChatResponse(bot_reply,
                                                    s5.profile.contact)]]

\* lines 253-258 on the classifier's result
ChatAnalyzed(s0, s1, a, response, req, gen, tg) ==
    ChatOutcome(s0, s1, a,
                IF a.contact_found_now THEN response.contact ELSE None,
                req, AgreementMemo[req.message],
                RealContactMemo[a.session.profile.contact], gen, tg)

\* line 250 on the seeded record
ChatSeeded(s0, s1, response, req, gen, tg) ==
    ChatAnalyzed(s0, s1, analyze_situation(s1, req.message, response),
                 response, req, gen, tg)

\* lines 245-289 on the session record s0 the request resolved to
ChatOnSession(s0, req, ai, gen, tg) ==
    ChatSeeded(s0, SeedContact(s0, req.stored_contact),
               call_ai_json(env.ready, ai), req, gen, tg)

AlertEntry(seen) ==
    [found |-> seen.found, title |-> seen.notification.title,
     delivered |-> seen.notification.delivered]

\* the store after a turn with result r on record rid
ChatCommit(r, req, rid, created, heap0, full0, alerts0) ==
    /\ SESSIONS' = [SESSIONS EXCEPT ![req.session_id] = rid]
    /\ heap' = [heap0 EXCEPT ![rid] = r.session]
    /\ full' = IF r.completed
               THEN [full0 EXCEPT ![rid] = @ \o
                       <<Entry("user", req.message),
                         Entry("assistant", r.seen.response.text)>>]
               ELSE full0
    /\ alerts' = IF r.seen.notification.called
                 THEN [alerts0 EXCEPT ![rid] = Append(@, AlertEntry(r.seen))]
                 ELSE alerts0
    /\ last' = [r.seen EXCEPT !.rid = rid, !.created = created]

\* the outcomes of the generation request and of the notification post, drawn
\* only when the turn makes them: pre is the turn with both succeeding
ChatDraw(pre, req, ai, GenSet, TgSet, rid, created, heap0, full0, alerts0) ==
    \E gen \in (IF env.ready /\ pre.completed THEN GenSet ELSE {"ok"}),
       tg \in (IF env.creds /\ pre.seen.should_alert THEN TgSet ELSE {"ok"}) :
        ChatCommit(ChatOnSession(heap0[rid], req, ai, gen, tg),
                   req, rid, created, heap0, full0, alerts0)

\* lines 236-243: the record of the key, created when the key is new
ChatResolved(req, AiSet, GenSet, TgSet, rid, created, heap0, full0, alerts0) ==
    \E ai \in (IF env.ready THEN AiSet ELSE {AiFail("raise")}) :
        ChatDraw(ChatOnSession(heap0[rid], req, ai, "ok", "ok"),
                 req, ai, GenSet, TgSet, rid, created, heap0, full0, alerts0)

\* One /chat request. The collaborators' outcomes are drawn where the code
\* calls them: the classifier's request is made only with a client, the
\* generation request only with a client on a turn that reaches line 279,
\* and the notification post only with credentials on a turn that alerts.
Chat(req, AiSet, GenSet, TgSet) ==
    /\ turns' = turns + 1
    /\ UNCHANGED <<env, thr, an, ad, rc, gs>>
    /\ IF ~req.ok
       THEN \* line 230/231 raises before the store is touched
            /\ last' = [NoLast EXCEPT !.op = "chat", !.phase = "rejected",
                                      !.response = ErrorResponse]
            /\ UNCHANGED <<SESSIONS, heap, full, alerts>>
       ELSE IF SESSIONS[req.session_id] = 0
       THEN ChatResolved(req, AiSet, GenSet, TgSet, Len(heap) + 1, TRUE,
                         Append(heap, NewSession), Append(full, <<>>),
                         Append(alerts, <<>>))
       ELSE ChatResolved(req, AiSet, GenSet, TgSet, SESSIONS[req.session_id],
                         FALSE, heap, full, alerts)

----------------------------------------------------------------------------
(* report_endpoint *)

ReportTitle == [label |-> "USER REPORTED ERROR", stage |-> ""]

ReportRequests == {BadRequest} \cup
                  { Request(TRUE, sid, None, None) : sid \in SessionIds }

Report(req, TgSet) ==
    /\ turns' = turns + 1
    /\ UNCHANGED <<SESSIONS, heap, full, alerts, env, thr, an, ad, rc, gs>>
    /\ IF ~req.ok
       THEN last' = [NoLast EXCEPT !.op = "report", !.phase = "rejected",
                                   !.response.status = "error"]
       ELSE IF SESSIONS[req.session_id] # 0
       THEN LET session == heap[SESSIONS[req.session_id]] IN
            \E tg \in (IF env.creds THEN TgSet ELSE {"ok"}) :
            last' = [NoLast EXCEPT
                        !.op = "report", !.sid = req.session_id,
                        !.rid = SESSIONS[req.session_id],
                        !.phase = "completed",
                        !.notification =
                            Notification(send_telegram(env.creds, tg),
                                         ReportTitle, session.profile,
                                         session.history),
                        !.response.status = "success"]
       ELSE last' = [NoLast EXCEPT !.op = "report", !.sid = req.session_id,
                                   !.phase = "completed",
                                   !.response.status = "error"]

----------------------------------------------------------------------------
(* The server handling one request at a time *)

ChatTurn ==
    /\ turns < MaxTurns
    /\ \E req \in Requests : Chat(req, AiOutputs, {"ok"}, TgOutcomes)

ReportTurn ==
    /\ turns < MaxTurns
    /\ \E req \in ReportRequests : Report(req, TgOutcomes)

Next == ChatTurn \/ ReportTurn

Spec == Init /\ [][Next]_vars

----------------------------------------------------------------------------
(* The history window over many turns of one session *)

\* a text message, and one that makes line 258 raise
HistRequests ==
    { Request(TRUE, "s1", m, None) : m \in {StrV(T_hi), ListV(T_phone)} }
HistAiOutputs == { AiOut("object", "GREETING", None, None, None) }

InitHist ==
    /\ InitStore
    /\ rc = RcIdle
    /\ gs = GsIdle
    /\ env = [ready |-> TRUE, creds |-> TRUE]
    /\ thr = NoThreads
    /\ an = AnIdle
    /\ ad = AdIdle

HistTurn ==
    /\ turns < MaxHistTurns
    /\ \E req \in HistRequests :
          Chat(req, HistAiOutputs, GenOutcomes, TgOutcomes)

NextHist == HistTurn

SpecHist == InitHist /\ [][NextHist]_vars

----------------------------------------------------------------------------
(* analyze_situation applied to one session, message and collaborator output *)

AnProfiles ==
    [name : {None, StrV(T_web)}, contact : {None, StrV(T_cookie)},
     project_type : {None}]

AnAiOutputs ==
    { AiFail(k) : k \in {"raise", "empty", "unparseable", "nonobject"} } \cup
    { AiOut("object", st, n, c, p) :
        st \in {"SALES_READY", "OTHER", "None", "ABSENT"},
        n \in {None, StrV(T_Bob)},
        c \in AllContacts,
        p \in {None, StrV(T_web)} }

NoAnResult == AnResult(NewSession, "", FALSE, FALSE)

InitAnalyze ==
    /\ InitStore
    /\ rc = RcIdle
    /\ gs = GsIdle
    /\ env \in [ready : BOOLEAN, creds : {TRUE}]
    /\ thr = NoThreads
    /\ ad = AdIdle
    /\ an \in [phase : {"in"},
               session : { [NewSession EXCEPT !.profile = p] : p \in AnProfiles },
               message : AllMessages,
               ai : AnAiOutputs,
               out : {NoAnResult}]

Analyze ==
    /\ an.phase = "in"
    /\ an' = [an EXCEPT
                !.phase = "out",
                !.out = analyze_situation(an.session, an.message,
                                          call_ai_json(env.ready, an.ai))]
    /\ UNCHANGED <<SESSIONS, heap, env, last, full, alerts, turns, thr, ad, rc, gs>>

NextAnalyze == Analyze

SpecAnalyze == InitAnalyze /\ [][NextAnalyze]_vars

----------------------------------------------------------------------------
(* The alert decision applied to one classification and session *)

DecStages == Stages \cup {"OTHER", "None"}

NoDecision == [should_alert |-> FALSE, latch |-> FALSE]

\* a contact is confirmed only by writing it into the profile
InitDecide ==
    /\ InitStore
    /\ rc = RcIdle
    /\ gs = GsIdle
    /\ env = [ready |-> TRUE, creds |-> TRUE]
    /\ thr = NoThreads
    /\ an = AnIdle
    /\ ad \in { d \in [phase : {"in"},
                       stage : DecStages,
                       agree : BOOLEAN,
                       found : BOOLEAN,
                       contact : {None, StrV(T_short), StrV(T_phone),
                                  StrV(T_email)},
                       latch : BOOLEAN,
                       out : {NoDecision}] :
                d.found => RealContactMemo[d.contact] }

Decide ==
    /\ ad.phase = "in"
    /\ ad' = [ad EXCEPT
                !.phase = "out",
                !.out = AlertDecision(ad.stage, ad.agree, ad.found,
                                      RealContactMemo[ad.contact], ad.latch)]
    /\ UNCHANGED <<SESSIONS, heap, env, last, full, alerts, turns, thr, an,
                   rc, gs>>

NextDecide == Decide

SpecDecide == InitDecide /\ [][NextDecide]_vars

----------------------------------------------------------------------------
(* is_real_contact applied to one value *)

MaxContactDigits == 8

DecimalDigits == <<"0","1","2","3","4","5","6","7","8","9">>

\* the first n digits of 1234567890123..., with a dash after the third
DigitRun(n, dash) ==
    LET d == [i \in 1..n |-> DecimalDigits[(i % 10) + 1]]
    IN  IF dash /\ n > 3 THEN SubSeq(d, 1, 3) \o <<"-">> \o SubSeq(d, 4, n)
        ELSE d

ContactText(n, at, dot, dash) ==
    (IF at THEN <<"a","@">> ELSE <<>>) \o DigitRun(n, dash)
        \o (IF dot THEN <<".","c">> ELSE <<>>)

ContactInputs ==
    AllContacts
    \cup { StrV(ContactText(n, at, dot, dash)) :
             n \in 0..MaxContactDigits, at \in BOOLEAN, dot \in BOOLEAN,
             dash \in BOOLEAN }
    \cup { IntV(DigitRun(n, FALSE)) : n \in 1..MaxContactDigits }
    \cup { IntV(<<"0">>), ListV(T_email), ListV(T_short) }

InitContact ==
    /\ InitStore
    /\ gs = GsIdle
    /\ env = [ready |-> TRUE, creds |-> TRUE]
    /\ thr = NoThreads
    /\ an = AnIdle
    /\ ad = AdIdle
    /\ rc \in [phase : {"in"}, contact_str : ContactInputs, out : {FALSE}]

RealContact ==
    /\ rc.phase = "in"
    /\ rc' = [rc EXCEPT !.phase = "out",
                        !.out = is_real_contact(rc.contact_str)]
    /\ UNCHANGED <<SESSIONS, heap, env, last, full, alerts, turns, thr, an, ad,
                   gs>>

NextContact == RealContact

SpecContact == InitContact /\ [][NextContact]_vars

----------------------------------------------------------------------------
(* generate_smart_response: the strategy put into the prompt *)

\* strategy that does not look at the profile's contact
strategy_ignoring_profile(profile, stage, contact_found_now) ==
    IF contact_found_now THEN "CLOSING"
    ELSE CASE stage = "URGENT" -> "URGENT"
           [] stage = "SALES_READY" -> "SALES"
           [] stage = "DISCOVERY" -> "DISCOVERY"
           [] stage = "CONSULTING" -> "ADVISOR"
           [] OTHER -> "GREETING"

\* lines 178-201; a directive is named by the word it starts with
strategy(profile, stage, contact_found_now) ==
    IF contact_found_now THEN "CLOSING"
    ELSE IF Truthy(profile.contact)
    THEN IF stage = "URGENT" THEN "VIP URGENT"
         ELSE IF stage = "SALES_READY" THEN "VIP SALES"
         ELSE "VIP CONSULTANT"
    ELSE IF stage = "URGENT" THEN "URGENT"
         ELSE IF stage = "SALES_READY" THEN "SALES"
         ELSE IF stage = "DISCOVERY" THEN "DISCOVERY"
         ELSE IF stage = "CONSULTING" THEN "ADVISOR"
         ELSE "GREETING"

GsProfiles ==
    [name : {None, StrV(T_Bob)},
     contact : {None, StrV(T_empty), StrV(T_short), StrV(T_phone),
                StrV(T_email)},
     project_type : {None}]

InitStrategy ==
    /\ InitStore
    /\ rc = RcIdle
    /\ env = [ready |-> TRUE, creds |-> TRUE]
    /\ thr = NoThreads
    /\ an = AnIdle
    /\ ad = AdIdle
    /\ gs \in [phase : {"in"}, profile : GsProfiles, stage : DecStages,
               contact_found_now : BOOLEAN, out : {""}]

ChooseStrategy ==
    /\ gs.phase = "in"
    /\ gs' = [gs EXCEPT !.phase = "out",
                        !.out = strategy(gs.profile, gs.stage,
                                         gs.contact_found_now)]
    /\ UNCHANGED <<SESSIONS, heap, env, last, full, alerts, turns, thr, an, ad,
                   rc>>

NextStrategy == ChooseStrategy

SpecStrategy == InitStrategy /\ [][NextStrategy]_vars

----------------------------------------------------------------------------
(* The threaded server: /chat requests handled concurrently.               *)
(* The handler takes no lock, so another thread may run between any two of *)
(* its statements; each action below is one statement (or one read or      *)
(* write of the shared store) of chat_endpoint.                            *)

Threads == {1, 2}

ConcRequests ==
    { Request(TRUE, "s1", m, c) :
        m \in {StrV(T_Callphone), StrV(T_cookie)},
        c \in {None, StrV(T_cookie)} }

ConcAiOutputs ==
    { AiOut("object", "SALES_READY", None, None, None),
      AiOut("object", "DISCOVERY", StrV(T_Bob), StrV(T_phone), None) }

IdleThread ==
    [pc |-> "idle", req |-> BadRequest, session |-> 0,
     stage |-> "", found |-> FALSE, agree |-> FALSE,
     set_latch |-> FALSE, should_alert |-> FALSE,
     bot_reply |-> None, window |-> <<>>, served |-> 0,
     response |-> NoResponse]

InitConc ==
    /\ InitStore
    /\ rc = RcIdle
    /\ gs = GsIdle
    /\ env = [ready |-> TRUE, creds |-> TRUE]
    /\ thr = [t \in Threads |-> IdleThread]
    /\ an = AnIdle
    /\ ad = AdIdle

Goto(t, pc) == thr' = [thr EXCEPT ![t].pc = pc]

ConcFrame == UNCHANGED <<env, last, turns, an, ad, rc, gs>>

\* lines 230-234: a request arrives
TStart(t) ==
    /\ thr[t].pc = "idle"
    /\ thr[t].served < MaxThreadTurns
    /\ \E req \in ConcRequests :
          thr' = [thr EXCEPT ![t] = [IdleThread EXCEPT
                                        !.pc = "lookup", !.req = req,
                                        !.served = thr[t].served + 1]]
    /\ UNCHANGED <<SESSIONS, heap, full, alerts>> /\ ConcFrame

\* line 236
TLookup(t) ==
    /\ thr[t].pc = "lookup"
    /\ Goto(t, IF SESSIONS[thr[t].req.session_id] = 0 THEN "create" ELSE "fetch")
    /\ UNCHANGED <<SESSIONS, heap, full, alerts>> /\ ConcFrame

\* lines 237-242: a new record is stored under the key, whatever is there
TCreate(t) ==
    /\ thr[t].pc = "create"
    /\ heap' = Append(heap, NewSession)
    /\ full' = Append(full, <<>>)
    /\ alerts' = Append(alerts, <<>>)
    /\ SESSIONS' = [SESSIONS EXCEPT ![thr[t].req.session_id] = Len(heap) + 1]
    /\ Goto(t, "fetch")
    /\ ConcFrame

\* line 243
TFetch(t) ==
    /\ thr[t].pc = "fetch"
    /\ thr' = [thr EXCEPT ![t].pc = "seed",
                          ![t].session = SESSIONS[thr[t].req.session_id]]
    /\ UNCHANGED <<SESSIONS, heap, full, alerts>> /\ ConcFrame

\* lines 245-247
TSeed(t) ==
    /\ thr[t].pc = "seed"
    /\ heap' = [heap EXCEPT ![thr[t].session] =
                   SeedContact(@, thr[t].req.stored_contact)]
    /\ Goto(t, "analyze")
    /\ UNCHANGED <<SESSIONS, full, alerts>> /\ ConcFrame

\* line 250: the classifier answers and the profile is updated in place
TAnalyze(t) ==
    /\ thr[t].pc = "analyze"
    /\ \E ai \in ConcAiOutputs :
          LET a == analyze_situation(heap[thr[t].session], thr[t].req.message,
                                     call_ai_json(env.ready, ai))
          IN  /\ heap' = [heap EXCEPT ![thr[t].session].profile =
                                          a.session.profile]
              /\ thr' = [thr EXCEPT ![t].pc = "decide",
                                    ![t].stage = a.stage,
                                    ![t].found = a.contact_found_now]
    /\ UNCHANGED <<SESSIONS, full, alerts>> /\ ConcFrame

\* lines 253-263: the decision, reading the latch
TDecide(t) ==
    /\ thr[t].pc = "decide"
    /\ LET session == heap[thr[t].session]
           agr == AgreementMemo[thr[t].req.message]
           d == AlertDecision(thr[t].stage, agr = "true", thr[t].found,
                              RealContactMemo[session.profile.contact],
                              session.high_priority_alert_sent)
       IN  IF agr = "raise"
           THEN thr' = [thr EXCEPT ![t].pc = "idle",
                                   ![t].response = ErrorResponse]
           ELSE thr' = [thr EXCEPT
                           ![t].pc = "latch",
                           ![t].agree = (agr = "true"),
                           ![t].should_alert = d.should_alert,
                           ![t].set_latch =
                               d.latch /\ ~session.high_priority_alert_sent]
    /\ UNCHANGED <<SESSIONS, heap, full, alerts>> /\ ConcFrame

\* lines 264-265: the latch is written
TLatch(t) ==
    /\ thr[t].pc = "latch"
    /\ heap' = IF thr[t].set_latch
               THEN [heap EXCEPT ![thr[t].session].high_priority_alert_sent = TRUE]
               ELSE heap
    /\ Goto(t, "send")
    /\ UNCHANGED <<SESSIONS, full, alerts>> /\ ConcFrame

\* lines 270-277
TSend(t) ==
    /\ thr[t].pc = "send"
    /\ IF thr[t].should_alert
       THEN \E tg \in TgOutcomes :
            LET rid == thr[t].session
                title == AlertTitle(thr[t].stage, thr[t].agree, thr[t].found)
            IN  /\ heap' = [heap EXCEPT ![rid].alert_sent = TRUE]
                /\ alerts' = [alerts EXCEPT ![rid] =
                                 Append(@, [found |-> thr[t].found,
                                            title |-> title,
                                            delivered |->
                                                send_telegram(env.creds, tg)])]
       ELSE UNCHANGED <<heap, alerts>>
    /\ Goto(t, "generate")
    /\ UNCHANGED <<SESSIONS, full>> /\ ConcFrame

\* line 279
TGenerate(t) ==
    /\ thr[t].pc = "generate"
    /\ \E gen \in GenOutcomes :
          thr' = [thr EXCEPT ![t].pc = "append_user",
                             ![t].bot_reply = call_ai_text(env.ready, gen)]
    /\ UNCHANGED <<SESSIONS, heap, full, alerts>> /\ ConcFrame

\* line 281
TAppendUser(t) ==
    /\ thr[t].pc = "append_user"
    /\ LET e == Entry("user", thr[t].req.message) IN
       /\ heap' = [heap EXCEPT ![thr[t].session].history = Append(@, e)]
       /\ full' = [full EXCEPT ![thr[t].session] = Append(@, e)]
    /\ Goto(t, "append_reply")
    /\ UNCHANGED <<SESSIONS, alerts>> /\ ConcFrame

\* line 282
TAppendReply(t) ==
    /\ thr[t].pc = "append_reply"
    /\ LET e == Entry("assistant", thr[t].bot_reply) IN
       /\ heap' = [heap EXCEPT ![thr[t].session].history = Append(@, e)]
       /\ full' = [full EXCEPT ![thr[t].session] = Append(@, e)]
    /\ Goto(t, "slice")
    /\ UNCHANGED <<SESSIONS, alerts>> /\ ConcFrame

\* line 283, right-hand side: a new list of the last HISTORY_LIMIT entries
TSlice(t) ==
    /\ thr[t].pc = "slice"
    /\ thr' = [thr EXCEPT ![t].pc = "store",
                          ![t].window = LastN(heap[thr[t].session].history,
                                              HISTORY_LIMIT)]
    /\ UNCHANGED <<SESSIONS, heap, full, alerts>> /\ ConcFrame

\* line 283, the assignment, and lines 285-289
TStore(t) ==
    /\ thr[t].pc = "store"
    /\ heap' = [heap EXCEPT ![thr[t].session].history = thr[t].window]
    /\ thr' = [thr EXCEPT
                  ![t].pc = "idle", ![t].window = <<>>,
                  ![t].response =
                      ChatResponse(thr[t].bot_reply,
                                   heap[thr[t].session].profile.contact)]
    /\ UNCHANGED <<SESSIONS, full, alerts>> /\ ConcFrame

NextConc ==
    \E t \in Threads :
        \/ TStart(t) \/ TLookup(t) \/ TCreate(t) \/ TFetch(t) \/ TSeed(t)
        \/ TAnalyze(t) \/ TDecide(t) \/ TLatch(t) \/ TSend(t)
        \/ TGenerate(t) \/ TAppendUser(t) \/ TAppendReply(t)
        \/ TSlice(t) \/ TStore(t)

SpecConc == InitConc /\ [][NextConc]_vars

----------------------------------------------------------------------------
(* A request thread whose notification post may never return.              *)
(* requests.post is called without a timeout (line 108), so a peer that    *)
(* accepts the connection and never answers keeps the call, and the thread *)
(* that made it, waiting.                                                  *)

LiveThreads == {1}

\* line 108: the post is made and does not return
TSendHang(t) ==
    /\ thr[t].pc = "send"
    /\ thr[t].should_alert
    /\ env.creds
    /\ Goto(t, "blocked")
    /\ UNCHANGED <<SESSIONS, heap, full, alerts>> /\ ConcFrame

\* the statements of a request in progress
ThreadStep(t) ==
    \/ TLookup(t) \/ TCreate(t) \/ TFetch(t) \/ TSeed(t) \/ TAnalyze(t)
    \/ TDecide(t) \/ TLatch(t) \/ TSend(t) \/ TSendHang(t) \/ TGenerate(t)
    \/ TAppendUser(t) \/ TAppendReply(t) \/ TSlice(t) \/ TStore(t)

NextLive == \E t \in LiveThreads : TStart(t) \/ ThreadStep(t)

\* a thread that can run is run: the server's threads are scheduled by the
\* operating system
SpecLive ==
    InitConc /\ [][NextLive]_vars /\ \A t \in LiveThreads : WF_vars(ThreadStep(t))

----------------------------------------------------------------------------
(* Properties of the sequential server *)

UnconfirmedAlerts(rid) == { i \in DOMAIN alerts[rid] : ~alerts[rid][i].found }

\* a completed SALES_READY turn with a valid stored contact and no new
\* confirmation
SalesReadyRepeat(t) ==
    /\ t.op = "chat" /\ t.phase = "completed"
    /\ t.stage = "SALES_READY" /\ ~t.found /\ t.has_contact

AlertCount(t) == IF t.should_alert THEN 1 ELSE 0

C1_AtMostOne ==
    \A rid \in DOMAIN alerts : Cardinality(UnconfirmedAlerts(rid)) <= 1

C1_Pair ==
    (SalesReadyRepeat(last) /\ SalesReadyRepeat(last') /\ last.rid = last'.rid)
    => AlertCount(last) + AlertCount(last')
         = (IF last.latch_before THEN 0 ELSE 1)

\* C1: over any sequence of /chat turns of a session handled one after
\* another, at most one turn that confirmed no contact raises an operator
\* alert; and two consecutive SALES_READY turns with a stored valid contact
\* and no new confirmation raise exactly one alert between them when the
\* latch was not yet set before the first (none when it was).
C1_OneHighPriorityAlert == [](C1_AtMostOne) /\ [][C1_Pair]_vars

\* C1 witness: the second qualifying turn, silenced by the latch, after the
\* one alert of the session
C1_Witness ==
    /\ SalesReadyRepeat(last)
    /\ last.latch_before /\ ~last.should_alert
    /\ Cardinality(UnconfirmedAlerts(last.rid)) = 1

NewContactTitle == AlertTitle("", FALSE, TRUE)

\* C2: every /chat turn in which the classifier confirms a contact raises an
\* alert titled as a new contact.
C2_ConfirmedTurnAlerts ==
    (last.op = "chat" /\ last.found)
    => /\ last.notification.called
       /\ last.notification.title = NewContactTitle

ContactOf(store, records, sid) ==
    IF store[sid] = 0 THEN None ELSE records[store[sid]].profile.contact

C8_Step ==
    \A sid \in SessionIds :
        LET c0 == ContactOf(SESSIONS, heap, sid)
            c1 == ContactOf(SESSIONS', heap', sid)
        IN  /\ Truthy(c0) => Truthy(c1)
            /\ (c1 # c0 /\ Truthy(c0)) =>
                   /\ last'.op = "chat" /\ last'.sid = sid
                   /\ last'.found /\ c1 = last'.confirmed
            /\ (c1 # c0 /\ ~Truthy(c0)) =>
                   /\ last'.op = "chat" /\ last'.sid = sid
                   /\ \/ last'.found /\ c1 = last'.confirmed
                      \/ /\ ~last'.found
                         /\ c1 = last'.contact_seeded
                         /\ is_real_contact(c1)
            /\ (last'.op = "chat" /\ last'.sid = sid
                    /\ last'.contact_seeded # c0) =>
                   ~Truthy(c0) /\ is_real_contact(last'.contact_seeded)

\* C8: over any sequence of /chat and /report requests, a profile contact
\* that is set is never cleared and changes only in a turn that confirmed a
\* contact, to the confirmed value; a caller-supplied stored contact is
\* written only into an empty profile contact and only when it passes
\* is_real_contact.
C8_ContactMonotonic == [][C8_Step]_vars

\* C8 witness: a turn that replaced a stored contact by a newly confirmed one,
\* and that carried a stored_contact of its own that was not written
C8_Witness ==
    /\ last.op = "chat" /\ last.found
    /\ Truthy(last.contact_before)
    /\ last.contact_seeded = last.contact_before
    /\ heap[last.rid].profile.contact = last.confirmed
    /\ last.confirmed # last.contact_before

\* C9: every /chat request is answered with a well-formed reply whose text is
\* a string.
C9_TextIsString ==
    last.op = "chat" =>
        /\ last.response.status = "reply"
        /\ last.response.text.t = "str"

----------------------------------------------------------------------------
(* Properties of the alert decision *)

\* the decision table of the alert engine for one input
TableEligible(d) ==
    /\ (d.stage \in {"SALES_READY", "URGENT"} \/ d.agree)
    /\ is_real_contact(d.contact)
    /\ ~d.latch

\* C3: the alert decision equals the ordered decision table: without a
\* contact confirmed this turn the turn alerts exactly when (the stage is
\* SALES_READY or URGENT, or the message holds an agreement word) and the
\* profile contact passes is_real_contact and the latch was unset, and the
\* latch is then set; a GREETING, DISCOVERY or CONSULTING turn with no
\* confirmed contact and no agreement word never alerts; a confirmed contact
\* alerts and leaves the latch as it was.
C3_DecisionTable ==
    ad.phase = "out" =>
        /\ ~ad.found => (ad.out.should_alert <=> TableEligible(ad))
        /\ ad.out.latch <=> (ad.latch \/ (~ad.found /\ TableEligible(ad)))
        /\ (ad.stage \in {"GREETING", "DISCOVERY", "CONSULTING"}
                /\ ~ad.found /\ ~ad.agree) => ~ad.out.should_alert
        /\ ad.found => ad.out.should_alert

\* C3 witness: an agreement word on a DISCOVERY turn with a stored contact
\* and an unset latch alerts and sets the latch
C3_Witness ==
    /\ ad.phase = "out"
    /\ ad.stage = "DISCOVERY" /\ ad.agree /\ ~ad.found
    /\ ad.contact = StrV(T_phone) /\ ~ad.latch
    /\ ad.out.should_alert /\ ad.out.latch

----------------------------------------------------------------------------
(* Properties of analyze_situation *)

AnResponse == call_ai_json(env.ready, an.ai)
AnExtracted == AnResponse.contact
AnExtractedDigits == StripNonDigits(PyStr(AnExtracted))
AnMessageDigits == StripNonDigits(PyStr(an.message))

\* the message holds the value: as a substring of a text, as an element of a
\* list
MessageHolds(x, m) ==
    \/ m.t = "str" /\ Contains(m.s, x)
    \/ m.t = "list" /\ m.s = x

AnConfirmedAs(expected) ==
    /\ an.out.contact_found_now = expected
    /\ an.out.session.profile.contact =
           (IF expected THEN AnExtracted ELSE an.session.profile.contact)

\* C4 as stated: the long-digit case compares the stripped digits of the
\* extracted value and of the message for equality.
C4_ConfirmedIffDigitsEqual ==
    (an.phase = "out" /\ an.message.t = "str") =>
        AnConfirmedAs(
            /\ AnResponse.kind = "object"
            /\ is_real_contact(AnExtracted)
            /\ \/ /\ Len(AnExtractedDigits) > 5
                  /\ AnExtractedDigits = AnMessageDigits
               \/ /\ Len(AnExtractedDigits) <= 5
                  /\ MessageHolds(PyStr(AnExtracted), an.message))

\* C4 amended: the flag is set, and the extracted value written to
\* profile.contact, exactly when the extracted contact passes is_real_contact
\* and either it has more than 5 digits and its stripped digits occur as a
\* contiguous run within the stripped digits of the message's text, or it has
\* 5 or fewer digits and the message holds it; otherwise the flag is false
\* and profile.contact is unchanged.
C4_ConfirmedIffDigitsContained ==
    an.phase = "out" =>
        AnConfirmedAs(
            /\ AnResponse.kind = "object"
            /\ is_real_contact(AnExtracted)
            /\ \/ /\ Len(AnExtractedDigits) > 5
                  /\ Contains(AnMessageDigits, AnExtractedDigits)
               \/ /\ Len(AnExtractedDigits) <= 5
                  /\ MessageHolds(PyStr(AnExtracted), an.message))

\* C4 witness: a phone number confirmed from a message that holds further
\* digits
C4_Witness ==
    /\ an.phase = "out" /\ an.message.t = "str"
    /\ an.out.contact_found_now
    /\ Len(AnExtractedDigits) > 5
    /\ AnExtractedDigits # AnMessageDigits
    /\ an.out.session.profile.contact = AnExtracted

Separators == {"-", " ", ".", "(", ")", "+"}

\* the digits d occur in the text as one number, broken by separators only
ContiguousNumber(text, d) ==
    \E i \in 1..Len(text), j \in 1..Len(text) :
        /\ i <= j
        /\ StripNonDigits(SubSeq(text, i, j)) = d
        /\ \A k \in i..j : text[k] \in DigitChars \cup Separators

EmailShaped(x) == HasChar(x, "@") /\ HasChar(x, ".")

\* C5: a contact is confirmed only when the extracted value itself occurs in
\* the message: verbatim, or for a phone number as the same contiguous number
\* up to separators.
C5_NoFabricatedContact ==
    (an.phase = "out" /\ an.message.t = "str" /\ an.out.contact_found_now) =>
        \/ Contains(an.message.s, PyStr(AnExtracted))
        \/ /\ ~EmailShaped(PyStr(AnExtracted))
           /\ ContiguousNumber(an.message.s, AnExtractedDigits)

\* C6: when the classifier's call fails or its output cannot be used, or an
\* exception is raised while the result is processed, analyze_situation
\* returns GREETING and no confirmation and leaves the profile as it was.
C6_FailureLeavesProfile ==
    (an.phase = "out" /\ (AnResponse.kind # "object" \/ an.out.raised)) =>
        /\ an.out.stage = "GREETING"
        /\ ~an.out.contact_found_now
        /\ an.out.session.profile = an.session.profile

----------------------------------------------------------------------------
(* Properties of the history window *)

Min(a, b) == IF a <= b THEN a ELSE b

\* C7: after every completed turn the stored history has at most 30 entries
\* and is the last min(30, total) entries of everything appended, in order.
C7_HistoryIsRecentWindow ==
    \A rid \in DOMAIN heap :
        LET h == heap[rid].history
            f == full[rid]
        IN  /\ Len(h) <= 30
            /\ Len(h) = Min(30, Len(f))
            /\ \A i \in 1..Len(h) : h[i] = f[Len(f) - Len(h) + i]

\* C7 witness: more than 30 entries were appended and the window is full
C7_Witness ==
    /\ Len(heap) = 1
    /\ Len(full[1]) > 30
    /\ Len(heap[1].history) = 30
    /\ \E i \in 1..30 : heap[1].history[i] # full[1][i]

----------------------------------------------------------------------------
(* Properties of the threaded server *)

Quiescent == \A t \in Threads : thr[t].pc = "idle"

Completed == { t \in Threads : thr[t].response.status = "reply" }

Alternates(h) ==
    \A i \in 1..Len(h) :
        h[i].role = (IF i % 2 = 1 THEN "user" ELSE "assistant")

\* C10: whenever the requests handled so far for a session key have all
\* returned, the session is as some one-at-a-time order leaves it: one record
\* was created for the key, every user message is directly followed by a
\* reply, and the history holds both entries of every request.
C10_SerialOutcome ==
    (Quiescent /\ SESSIONS["s1"] # 0) =>
        /\ Len(heap) = 1
        /\ Alternates(heap[SESSIONS["s1"]].history)
        /\ Len(heap[SESSIONS["s1"]].history) = 2 * Cardinality(Completed)

\* C11: the high-priority latch of a session record is used once also when
\* requests are handled concurrently: of the turns on one record that
\* confirmed no contact, at most one raises the alert.
C11_LatchSetOnce ==
    \A rid \in DOMAIN alerts :
        \A i, j \in DOMAIN alerts[rid] :
            (~alerts[rid][i].found /\ ~alerts[rid][j].found) => i = j

----------------------------------------------------------------------------
(* Properties of is_real_contact *)

DigitCount(s) == Cardinality({ i \in 1..Len(s) : s[i] \in DigitChars })

RcText == PyStr(rc.contact_str)

\* C12: is_real_contact returns a boolean for every value and changes
\* nothing: false for a missing or empty value, true for a text holding both
\* "@" and ".", and otherwise true exactly when the text holds at least 7
\* digits; the table used at the two call sites gives the same answer.
C12_RealContactTable ==
    rc.phase = "out" =>
        /\ rc.out \in BOOLEAN
        /\ rc.out =
             (IF rc.contact_str = None \/ RcText = <<>> THEN FALSE
              ELSE IF (\E i \in 1..Len(RcText) : RcText[i] = "@")
                      /\ (\E i \in 1..Len(RcText) : RcText[i] = ".")
                   THEN TRUE
              ELSE DigitCount(RcText) >= 7)
        /\ rc.contact_str \in AllContacts
               => RealContactMemo[rc.contact_str] = rc.out
        /\ heap = <<>> /\ SESSIONS = [sid \in SessionIds |-> 0]

\* C12 witness: "123-4567" is accepted
C12_Witness ==
    /\ rc.phase = "out"
    /\ rc.contact_str = StrV(<<"1","2","3","-","4","5","6","7">>)
    /\ rc.out

----------------------------------------------------------------------------
(* Properties of report_endpoint *)

C13_Step ==
    (turns' = turns + 1 /\ last'.op = "report") =>
        /\ SESSIONS' = SESSIONS
        /\ heap' = heap
        /\ last'.phase = "completed" =>
             IF SESSIONS[last'.sid] # 0
             THEN /\ last'.notification.called
                  /\ last'.notification.title = ReportTitle
                  /\ last'.notification.history =
                         heap[SESSIONS[last'.sid]].history
                  /\ last'.notification.profile =
                         heap[SESSIONS[last'.sid]].profile
                  /\ last'.response.status = "success"
             ELSE /\ ~last'.notification.called
                  /\ last'.response.status = "error"

----------------------------------------------------------------------------
(* Properties of the reply strategy *)

\* the directives that ask the visitor for contact details (lines 191, 193)
AskingDirectives == {"URGENT", "SALES"}

HasContact(profile) == profile.contact \notin {None, StrV(<<>>)}

VipDirective ==
    [st \in DecStages |->
        CASE st = "URGENT" -> "VIP URGENT"
          [] st = "SALES_READY" -> "VIP SALES"
          [] OTHER -> "VIP CONSULTANT"]

AcquisitionDirective ==
    [st \in DecStages |->
        CASE st = "URGENT" -> "URGENT"
          [] st = "SALES_READY" -> "SALES"
          [] st = "DISCOVERY" -> "DISCOVERY"
          [] st = "CONSULTING" -> "ADVISOR"
          [] OTHER -> "GREETING"]

\* C14: the strategy depends only on the stage, on whether the profile has a
\* contact and on whether a contact was confirmed this turn: closing when
\* confirmed; else one of the three VIP directives when the profile has a
\* contact; else the acquisition directive of the stage, greeting for any
\* other stage. No directive that asks for contact details is chosen while
\* the profile has a contact.
C14_StrategyTable ==
    gs.phase = "out" =>
        /\ gs.out = (IF gs.contact_found_now THEN "CLOSING"
                     ELSE IF HasContact(gs.profile) THEN VipDirective[gs.stage]
                     ELSE AcquisitionDirective[gs.stage])
        /\ HasContact(gs.profile) => gs.out \notin AskingDirectives

\* C14 witness: a DISCOVERY turn of a visitor whose contact is known gets the
\* consultant directive
C14_Witness ==
    /\ gs.phase = "out"
    /\ gs.stage = "DISCOVERY" /\ ~gs.contact_found_now
    /\ gs.profile.contact = StrV(T_phone)
    /\ gs.out = "VIP CONSULTANT"

----------------------------------------------------------------------------
(* Properties of the returned stage *)

\* C15: the stage analyze_situation returns is one of GREETING, DISCOVERY,
\* CONSULTING, SALES_READY, URGENT for every output of the collaborator.
C15_StageInEnum ==
    an.phase = "out" => an.out.stage \in Stages

----------------------------------------------------------------------------
(* Properties of alert delivery *)

\* C16: a latch that is set stands for a notification that reached the
\* operator: high_priority_alert_sent only after a delivered alert of a turn
\* that confirmed no contact, alert_sent only after a delivered alert.
C16_LatchMeansDelivered ==
    \A rid \in DOMAIN heap :
        /\ heap[rid].high_priority_alert_sent =>
               \E i \in DOMAIN alerts[rid] :
                   ~alerts[rid][i].found /\ alerts[rid][i].delivered
        /\ heap[rid].alert_sent =>
               \E i \in DOMAIN alerts[rid] : alerts[rid][i].delivered

----------------------------------------------------------------------------
(* Properties of a turn's termination *)

\* C17: every /chat turn that has started returns a reply, whatever the
\* collaborators do.
C17_TurnReturns ==
    \A t \in LiveThreads : (thr[t].pc # "idle") ~> (thr[t].pc = "idle")

----------------------------------------------------------------------------
(* Properties of the stored contact *)

\* C18: in every state reached by requests handled one after another, a
\* session's profile.contact is None or passes is_real_contact, so the
\* validator's test of the alert path and the truth-value test of the reply
\* strategy agree on whether the session has a contact.
C18_StoredContactIsReal ==
    /\ \A rid \in DOMAIN heap :
          LET c == heap[rid].profile.contact
          IN  /\ c = None \/ is_real_contact(c)
              /\ is_real_contact(c) <=> Truthy(c)
    /\ (last.op = "chat" /\ last.phase = "completed") =>
          (last.has_contact <=> Truthy(heap[last.rid].profile.contact))

\* C18 witness: a turn that seeded the caller's stored contact into an empty
\* profile and then found the session to have a contact
C18_Witness ==
    /\ last.op = "chat" /\ last.phase = "completed" /\ ~last.found
    /\ last.contact_before = None
    /\ last.contact_seeded # None
    /\ last.has_contact
    /\ heap[last.rid].profile.contact = last.contact_seeded

----------------------------------------------------------------------------
(* Properties of the latches *)

C19_Flags ==
    \A rid \in DOMAIN heap :
        heap[rid].high_priority_alert_sent => heap[rid].alert_sent

C19_Step ==
    \A rid \in DOMAIN heap :
        /\ heap[rid].high_priority_alert_sent
               => heap'[rid].high_priority_alert_sent
        /\ heap[rid].alert_sent => heap'[rid].alert_sent
        /\ (~heap[rid].high_priority_alert_sent
                /\ heap'[rid].high_priority_alert_sent) =>
               /\ last'.op = "chat" /\ last'.rid = rid
               /\ last'.should_alert
               /\ last'.notification.called

\* C19: the high-priority latch is never used up without an alert: a turn
\* that sets high_priority_alert_sent ends with should_alert true and calls
\* the notifier, for every stage value; after every turn handled in sequence
\* high_priority_alert_sent implies alert_sent, and neither flag is ever
\* reset.
C19_LatchImpliesAlert == [](C19_Flags) /\ [][C19_Step]_vars

\* C19 witness: a turn outside SALES_READY and URGENT that set the latch
\* through an agreement word and alerted
C19_Witness ==
    /\ last.op = "chat" /\ last.phase = "completed"
    /\ last.stage \notin ALLOWED_ALERT_STAGES
    /\ last.agree /\ ~last.found
    /\ ~last.latch_before /\ last.should_alert
    /\ heap[last.rid].high_priority_alert_sent
    /\ heap[last.rid].alert_sent

----------------------------------------------------------------------------
(* Properties of the history's shape *)

C20_Shape ==
    \A rid \in DOMAIN heap :
        /\ Len(heap[rid].history) % 2 = 0
        /\ Alternates(heap[rid].history)

C20_Step ==
    (turns' = turns + 1 /\ last'.op = "chat" /\ last'.phase # "completed") =>
        \A rid \in DOMAIN heap' :
            heap'[rid].history =
                (IF rid \in DOMAIN heap THEN heap[rid].history ELSE <<>>)

\* C20: after any sequence of /chat turns handled one after another a
\* session's history has even length and alternates user, assistant, user,
\* assistant, ..., also once it is cut to the last 30 entries; a turn that
\* ends with the generic error before the append adds no entry.
C20_HistoryAlternates == [](C20_Shape) /\ [][C20_Step]_vars

\* C20 witness: a history that has been cut to its last 30 entries
C20_Witness ==
    /\ last.op = "chat" /\ last.phase = "completed"
    /\ Len(full[last.rid]) > 30
    /\ Len(heap[last.rid].history) = 30
    /\ heap[last.rid].history[1].role = "user"
    /\ heap[last.rid].history[30].role = "assistant"

====
